---------------------------- MODULE Spec2Model ----------------------------
(***************************************************************************)
(* Model of crates/core/src/conn/rustls/config.rs: Keycert (lazily loaded  *)
(* key / certificate holder), RustlsConfig (builder), build_server_config  *)
(* (finalize) and CertResolver (SNI lookup).                               *)
(*                                                                         *)
(* A byte buffer is a sequence of PEM items; the empty sequence is the     *)
(* empty Vec<u8>.  An item is a PEM section (its label and its DER         *)
(* payload), a run of text outside any section, or a section whose body    *)
(* does not decode.  Option<T> is a sequence of length 0 (None) or 1       *)
(* (Some), io::Result<T> is a record [ok, val, err] with val an Option.    *)
(***************************************************************************)
EXTENDS Integers, Sequences, FiniteSets, TLC

VARIABLES
    kc,         \* the Keycert under construction
    keyGiven,   \* history: the non-empty bytes of the last with_key call, if any
    certGiven,  \* history: the non-empty bytes of the last with_cert call, if any
    keyLoads,   \* history: complete reads of the key file since the key fields were set
    certLoads,  \* history: complete reads of the cert file since the cert fields were set
    calls,      \* history: key()/cert()/build_certified_key() calls made on kc
    ret,        \* the last Keycert call: its name, the Keycert before it, its result
    cfg,        \* Option<RustlsConfig>: the builder, None once it has been consumed
    fb0,        \* history: the fallback RustlsConfig::new was given
    regs,       \* history: the keycert(name, material) calls, in order
    auth,       \* history: the last successful client_auth_* call
    out,        \* the last RustlsConfig call: its name, argument and result
    finalized,  \* history: the RustlsConfig that build_server_config consumed
    resolved    \* Option of the last CertResolver::resolve call: [name, ck]

vars == <<kc, keyGiven, certGiven, keyLoads, certLoads, calls, ret,
          cfg, fb0, regs, auth, out, finalized, resolved>>

keycertVars == <<kc, keyGiven, certGiven, keyLoads, certLoads, calls, ret>>
configVars == <<cfg, fb0, regs, auth, out, finalized, resolved>>

\* Bounds of the model.
MaxCalls == 3
MaxRegs == 2

----------------------------------------------------------------------------
\* Option<T> and io::Result<T>.
None == <<>>
Some(x) == <<x>>
Ok(v) == [ok |-> TRUE, val |-> <<v>>, err |-> ""]
Err(e) == [ok |-> FALSE, val |-> <<>>, err |-> e]

\* The io::Error values the code builds or propagates.
ErrOpen == "io: cannot open file"
ErrRead == "io: read failed"
ErrEmptyKey == "empty key"
ErrEmptyCert == "empty cert"
ErrParseCerts == "failed to parse tls certificates"
ErrParseKeys == "failed to parse tls private keys"
ErrInvalidKey == "invalid private key"
ErrTrustAnchor == "failed to read trust anchor"

----------------------------------------------------------------------------
\* PEM items.
X509(d) == [tag |-> "CERTIFICATE", der |-> d]
PKCS8(d) == [tag |-> "PRIVATE KEY", der |-> d]
RSAKEY(d) == [tag |-> "RSA PRIVATE KEY", der |-> d]
Text == [tag |-> "text", der |-> ""]
Malformed == [tag |-> "malformed", der |-> ""]

\* The DER payloads of the sections labelled tag, in order.
RECURSIVE Sections(_, _)
Sections(bytes, tag) ==
    IF bytes = <<>> THEN <<>>
    ELSE IF Head(bytes).tag = tag
         THEN <<Head(bytes).der>> \o Sections(Tail(bytes), tag)
         ELSE Sections(Tail(bytes), tag)

\* rustls_pemfile: every section is decoded while scanning, so one section
\* that does not decode fails the call; sections of other kinds are skipped.
PemParse(bytes, tag) ==
    IF \E i \in 1..Len(bytes) : bytes[i] = Malformed
    THEN Err("pem")
    ELSE Ok(Sections(bytes, tag))

certs(bytes) == PemParse(bytes, "CERTIFICATE")
pkcs8_private_keys(bytes) == PemParse(bytes, "PRIVATE KEY")
rsa_private_keys(bytes) == PemParse(bytes, "RSA PRIVATE KEY")

\* sign::any_supported_type looks at the private key alone.
KeyAlgorithm ==
    [der \in {"rsa-k1", "rsa-k2", "ec-k3", "junk"} |->
        CASE der = "rsa-k1" -> "RSA"
          [] der = "rsa-k2" -> "RSA"
          [] der = "ec-k3" -> "ECDSA"
          [] OTHER -> "unsupported"]

any_supported_type(der) ==
    IF KeyAlgorithm[der] = "unsupported"
    THEN Err("unsupported key")
    ELSE Ok([scheme |-> KeyAlgorithm[der], der |-> der])

----------------------------------------------------------------------------
\* The filesystem the calls see.  A flaky file can fail in read_to_end.
Files ==
    [p \in {"missing.pem", "empty.pem", "key.pem", "cert.pem", "both.pem"} |->
        CASE p = "missing.pem" -> [exists |-> FALSE, flaky |-> FALSE, data |-> <<>>]
          [] p = "empty.pem" -> [exists |-> TRUE, flaky |-> FALSE, data |-> <<>>]
          [] p = "key.pem" ->
                [exists |-> TRUE, flaky |-> FALSE, data |-> <<PKCS8("rsa-k1")>>]
          [] p = "cert.pem" ->
                [exists |-> TRUE, flaky |-> FALSE, data |-> <<X509("c1"), X509("c2")>>]
          [] OTHER ->
                [exists |-> TRUE, flaky |-> TRUE, data |-> <<X509("c3"), PKCS8("ec-k3")>>]]

Paths == DOMAIN Files

\* File::open(path)? followed by file.read_to_end(&mut buf)?: the possible
\* outcomes.  read_to_end appends to buf, and on an error keeps what it had
\* appended so far.  loads counts the complete reads.
ReadFile(path, buf) ==
    IF ~Files[path].exists
    THEN {[ok |-> FALSE, buf |-> buf, err |-> ErrOpen, loads |-> 0]}
    ELSE {[ok |-> TRUE, buf |-> buf \o Files[path].data, err |-> "", loads |-> 1]}
         \cup
         (IF Files[path].flaky
          THEN {[ok |-> FALSE,
                 buf |-> buf \o SubSeq(Files[path].data, 1, n),
                 err |-> ErrRead, loads |-> 0] : n \in 0..Len(Files[path].data)}
          ELSE {})

----------------------------------------------------------------------------
\* Keycert.
new_keycert ==
    [key_path |-> None, key |-> <<>>, cert_path |-> None, cert |-> <<>>,
     ocsp_resp |-> <<>>]

\* Mutant of with_key_path: setting the path discards the bytes set before.
with_key_path_clears_key(self, path) ==
    [self EXCEPT !.key_path = Some(path), !.key = <<>>]

with_key_path(self, path) == [self EXCEPT !.key_path = Some(path)]
with_key(self, key) == [self EXCEPT !.key = key]
with_cert_path(self, path) == [self EXCEPT !.cert_path = Some(path)]
with_cert(self, cert) == [self EXCEPT !.cert = cert]

\* An outcome of a &mut self call: the Keycert after it, the result, the
\* paths it opened, its complete reads, the parsers it ran.
Outcome(self, res, io, kl, cl, trace) ==
    [self |-> self, res |-> res, io |-> io, keyLoads |-> kl, certLoads |-> cl,
     trace |-> trace]

\* Mutant of key: the buffer is handed out without the emptiness check.
key_unchecked(self) ==
    IF self.key = <<>> /\ self.key_path # None
    THEN {Outcome([self EXCEPT !.key = r.buf],
                  IF ~r.ok THEN Err(r.err) ELSE Ok(r.buf),
                  <<self.key_path[1]>>, r.loads, 0, <<>>)
            : r \in ReadFile(self.key_path[1], self.key)}
    ELSE {Outcome(self, Ok(self.key), <<>>, 0, 0, <<>>)}

\* Keycert::key
key(self) ==
    IF self.key = <<>> /\ self.key_path # None
    THEN {Outcome([self EXCEPT !.key = r.buf],
                  IF ~r.ok THEN Err(r.err)
                  ELSE IF r.buf = <<>> THEN Err(ErrEmptyKey)
                  ELSE Ok(r.buf),
                  <<self.key_path[1]>>, r.loads, 0, <<>>)
            : r \in ReadFile(self.key_path[1], self.key)}
    ELSE {Outcome(self,
                  IF self.key = <<>> THEN Err(ErrEmptyKey) ELSE Ok(self.key),
                  <<>>, 0, 0, <<>>)}

\* Keycert::cert
cert(self) ==
    IF self.cert = <<>> /\ self.cert_path # None
    THEN {Outcome([self EXCEPT !.cert = r.buf],
                  IF ~r.ok THEN Err(r.err)
                  ELSE IF r.buf = <<>> THEN Err(ErrEmptyCert)
                  ELSE Ok(r.buf),
                  <<self.cert_path[1]>>, 0, r.loads, <<>>)
            : r \in ReadFile(self.cert_path[1], self.cert)}
    ELSE {Outcome(self,
                  IF self.cert = <<>> THEN Err(ErrEmptyCert) ELSE Ok(self.cert),
                  <<>>, 0, 0, <<>>)}

\* An outcome o of a later call, made after the calls that gave prev.
After(prev, o, res, trace) ==
    Outcome(o.self, res, prev.io \o o.io, prev.keyLoads + o.keyLoads,
            prev.certLoads + o.certLoads, prev.trace \o trace)

\* The outcome o with another result, after one more parser ran.
Then(o, res, trace) == [o EXCEPT !.res = res, !.trace = @ \o trace]

\* Lines 136-147: the signer and the CertifiedKey.
CertifiedKeyOf(now, chain, der) ==
    LET signer == any_supported_type(der)
    IN  IF ~signer.ok
        THEN Then(now, Err(ErrInvalidKey), <<>>)
        ELSE Then(now,
                  Ok([cert |-> chain,
                      key |-> signer.val[1],
                      ocsp |-> IF now.self.ocsp_resp # <<>>
                               THEN Some(now.self.ocsp_resp) ELSE None,
                      sct_list |-> None]),
                  <<>>)

\* Lines 125-132: the RSA attempt, made when PKCS8 gave no key.
RsaStage(prev, chain) ==
    {IF ~k.res.ok THEN After(prev, k, k.res, <<>>)
     ELSE LET rsa == rsa_private_keys(k.res.val[1])
              now == After(prev, k, k.res, <<"rsa">>)
          IN  IF ~rsa.ok THEN Then(now, Err(ErrParseKeys), <<>>)
              ELSE IF rsa.val[1] # <<>>
                   THEN CertifiedKeyOf(now, chain, Head(rsa.val[1]))
                   ELSE Then(now, Err(ErrParseKeys), <<>>)
       : k \in key(prev.self)}

\* Mutant of KeyStage: the RSA sections are tried before the PKCS8 ones.
KeyStage_rsa_first(prev, chain) ==
    UNION {IF ~k.res.ok THEN {After(prev, k, k.res, <<>>)}
           ELSE LET rsa == rsa_private_keys(k.res.val[1])
                    pkcs8 == pkcs8_private_keys(k.res.val[1])
                    now == After(prev, k, k.res, <<"rsa">>)
                IN  IF ~rsa.ok
                    THEN {Then(now, Err(ErrParseKeys), <<>>)}
                    ELSE IF rsa.val[1] # <<>>
                         THEN {CertifiedKeyOf(now, chain, Head(rsa.val[1]))}
                         ELSE IF pkcs8.val[1] # <<>>
                              THEN {CertifiedKeyOf(Then(now, k.res, <<"pkcs8">>), chain,
                                                   Head(pkcs8.val[1]))}
                              ELSE {Then(now, Err(ErrParseKeys), <<"pkcs8">>)}
             : k \in key(prev.self)}

\* Lines 119-134: the private key, PKCS8 first.
KeyStage(prev, chain) ==
    UNION {IF ~k.res.ok THEN {After(prev, k, k.res, <<>>)}
           ELSE LET pkcs8 == pkcs8_private_keys(k.res.val[1])
                    now == After(prev, k, k.res, <<"pkcs8">>)
                IN  IF ~pkcs8.ok
                    THEN {Then(now, Err(ErrParseKeys), <<>>)}
                    ELSE IF pkcs8.val[1] # <<>>
                         THEN {CertifiedKeyOf(now, chain, Head(pkcs8.val[1]))}
                         ELSE RsaStage(now, chain)
             : k \in key(prev.self)}

\* Keycert::build_certified_key
build_certified_key(self) ==
    UNION {IF ~c.res.ok THEN {c}
           ELSE LET parsed == certs(c.res.val[1])
                IN  IF ~parsed.ok
                    THEN {Then(c, Err(ErrParseCerts), <<"certs">>)}
                    ELSE KeyStage(Then(c, c.res, <<"certs">>), parsed.val[1])
             : c \in cert(self)}

----------------------------------------------------------------------------
\* The byte buffers the setters are given.
KeyInputs ==
    {<<>>,
     <<PKCS8("rsa-k1")>>,
     <<RSAKEY("rsa-k2")>>,
     <<RSAKEY("rsa-k2"), PKCS8("ec-k3")>>,
     <<PKCS8("junk")>>,
     <<Text>>,
     <<Malformed>>}

CertInputs ==
    {<<>>,
     <<X509("c1")>>,
     <<Text>>,
     <<Malformed>>}

\* What a call leaves in ret.
Called(op, pre, o) ==
    Some([op |-> op, pre |-> pre, res |-> o.res, io |-> o.io, trace |-> o.trace])

\* The history of a with_key / with_cert call followed by path setters.
Given(bytes) == IF bytes = <<>> THEN None ELSE Some([bytes |-> bytes, then_path |-> FALSE])
ThenPath(given) == IF given = None THEN None ELSE Some([given[1] EXCEPT !.then_path = TRUE])

WithKeyPath(path) ==
    /\ kc' = with_key_path(kc, path)
    /\ keyGiven' = ThenPath(keyGiven)
    /\ keyLoads' = 0
    /\ ret' = None
    /\ UNCHANGED <<certGiven, certLoads, calls, configVars>>

WithKey(bytes) ==
    /\ kc' = with_key(kc, bytes)
    /\ keyGiven' = Given(bytes)
    /\ keyLoads' = 0
    /\ ret' = None
    /\ UNCHANGED <<certGiven, certLoads, calls, configVars>>

WithCertPath(path) ==
    /\ kc' = with_cert_path(kc, path)
    /\ certGiven' = ThenPath(certGiven)
    /\ certLoads' = 0
    /\ ret' = None
    /\ UNCHANGED <<keyGiven, keyLoads, calls, configVars>>

WithCert(bytes) ==
    /\ kc' = with_cert(kc, bytes)
    /\ certGiven' = Given(bytes)
    /\ certLoads' = 0
    /\ ret' = None
    /\ UNCHANGED <<keyGiven, keyLoads, calls, configVars>>

\* A &mut self call with the outcomes outs.
Call(op, outs) ==
    /\ calls < MaxCalls
    /\ \E o \in outs :
          /\ kc' = o.self
          /\ keyLoads' = keyLoads + o.keyLoads
          /\ certLoads' = certLoads + o.certLoads
          /\ ret' = Called(op, kc, o)
    /\ calls' = calls + 1
    /\ UNCHANGED <<keyGiven, certGiven, configVars>>

KeyCall == Call("key", key(kc))
CertCall == Call("cert", cert(kc))
BuildCertifiedKey == Call("build_certified_key", build_certified_key(kc))

InitKeycert ==
    /\ kc = new_keycert
    /\ keyGiven = None
    /\ certGiven = None
    /\ keyLoads = 0
    /\ certLoads = 0
    /\ calls = 0
    /\ ret = None

NextKeycert ==
    \/ \E path \in Paths : WithKeyPath(path)
    \/ \E bytes \in KeyInputs : WithKey(bytes)
    \/ \E path \in Paths : WithCertPath(path)
    \/ \E bytes \in CertInputs : WithCert(bytes)
    \/ KeyCall
    \/ CertCall
    \/ BuildCertifiedKey

----------------------------------------------------------------------------
\* TlsClientAuth
Off == [kind |-> "Off", trust_anchor |-> <<>>]
Optional(trust_anchor) == [kind |-> "Optional", trust_anchor |-> trust_anchor]
Required(trust_anchor) == [kind |-> "Required", trust_anchor |-> trust_anchor]

\* HashMap::insert: the entry for name is added or overwritten.
Insert(map, name, value) ==
    [n \in DOMAIN map \cup {name} |-> IF n = name THEN value ELSE map[n]]

EmptyMap == [n \in {} |-> None]

\* RustlsConfig::new
new(fallback) ==
    [fallback |-> fallback, keycerts |-> EmptyMap, client_auth |-> Off]

\* The path variants: File::open(path)?, read_to_end(&mut data)?, then the
\* assignment.  The results are io::Result<Self>.
client_auth_optional_path(self, path) ==
    {IF r.ok THEN Ok([self EXCEPT !.client_auth = Optional(r.buf)]) ELSE Err(r.err)
       : r \in ReadFile(path, <<>>)}

client_auth_optional(self, trust_anchor) ==
    [self EXCEPT !.client_auth = Optional(trust_anchor)]

client_auth_required_path(self, path) ==
    {IF r.ok THEN Ok([self EXCEPT !.client_auth = Required(r.buf)]) ELSE Err(r.err)
       : r \in ReadFile(path, <<>>)}

\* Mutant of client_auth_required: the policy is stored as Optional.
client_auth_required_as_optional(self, trust_anchor) ==
    [self EXCEPT !.client_auth = Optional(trust_anchor)]

client_auth_required(self, trust_anchor) ==
    [self EXCEPT !.client_auth = Required(trust_anchor)]

\* Mutant of keycert: an entry already present is kept.
keycert_keeps_first(self, name, material) ==
    IF name \in DOMAIN self.keycerts
    THEN self
    ELSE [self EXCEPT !.keycerts = Insert(@, name, material)]

\* RustlsConfig::keycert
keycert(self, name, material) ==
    [self EXCEPT !.keycerts = Insert(@, name, material)]

\* super::read_trust_anchor: the PEM bundle's certificates; a malformed or an
\* empty bundle is an error.
read_trust_anchor(trust_anchor) ==
    LET parsed == certs(trust_anchor)
    IN  IF ~parsed.ok \/ parsed.val[1] = <<>>
        THEN Err(ErrTrustAnchor)
        ELSE Ok(parsed.val[1])

\* Lines 239-244: the fallback's CertifiedKey, if there is a fallback.
FallbackStage(self) ==
    IF self.fallback = None
    THEN {Ok(None)}
    ELSE {IF o.res.ok THEN Ok(Some(o.res.val[1])) ELSE o.res
            : o \in build_certified_key(self.fallback[1])}

\* Mutant of CertifiedKeys: a Keycert that fails is left out of the map.
RECURSIVE CertifiedKeys_skip_failed(_, _, _)
CertifiedKeys_skip_failed(keycerts, todo, done) ==
    IF todo = {}
    THEN {Ok(done)}
    ELSE UNION {UNION {IF o.res.ok
                       THEN CertifiedKeys_skip_failed(keycerts, todo \ {n},
                                                      Insert(done, n, o.res.val[1]))
                       ELSE CertifiedKeys_skip_failed(keycerts, todo \ {n}, done)
                         : o \in build_certified_key(keycerts[n])}
                  : n \in todo}

\* Lines 245-249: the loop over the HashMap, in any order; the first
\* build_certified_key that fails ends it.
RECURSIVE CertifiedKeys(_, _, _)
CertifiedKeys(keycerts, todo, done) ==
    IF todo = {}
    THEN {Ok(done)}
    ELSE UNION {UNION {IF o.res.ok
                       THEN CertifiedKeys(keycerts, todo \ {n},
                                          Insert(done, n, o.res.val[1]))
                       ELSE {o.res}
                         : o \in build_certified_key(keycerts[n])}
                  : n \in todo}

\* Lines 251-257: the client certificate verifier.
ClientAuthStage(self) ==
    IF self.client_auth.kind = "Off"
    THEN Ok([kind |-> "NoClientAuth", roots |-> <<>>])
    ELSE LET roots == read_trust_anchor(self.client_auth.trust_anchor)
         IN  IF ~roots.ok THEN roots
             ELSE IF self.client_auth.kind = "Optional"
             THEN Ok([kind |-> "AllowAnyAnonymousOrAuthenticatedClient",
                      roots |-> roots.val[1]])
             ELSE Ok([kind |-> "AllowAnyAuthenticatedClient",
                      roots |-> roots.val[1]])

\* RustlsConfig::build_server_config: the possible io::Result<ServerConfig>.
build_server_config(self) ==
    UNION {IF ~f.ok THEN {f}
           ELSE UNION {IF ~m.ok THEN {m}
                       ELSE LET v == ClientAuthStage(self)
                            IN  IF ~v.ok THEN {v}
                                ELSE {Ok([verifier |-> v.val[1],
                                          cert_resolver |->
                                              [fallback |-> f.val[1],
                                               certified_keys |-> m.val[1]],
                                          alpn_protocols |-> <<"h2", "http/1.1">>])}
                         : m \in CertifiedKeys(self.keycerts, DOMAIN self.keycerts,
                                               EmptyMap)}
             : f \in FallbackStage(self)}

\* Mutant of resolve: the fallback, when there is one, is preferred.
resolve_fallback_first(self, server_name) ==
    IF self.fallback # None
    THEN self.fallback
    ELSE IF server_name # None /\ server_name[1] \in DOMAIN self.certified_keys
         THEN Some(self.certified_keys[server_name[1]])
         ELSE None

\* CertResolver::resolve, server_name being client_hello.server_name().
resolve(self, server_name) ==
    LET hit == IF server_name # None /\ server_name[1] \in DOMAIN self.certified_keys
               THEN Some(self.certified_keys[server_name[1]])
               ELSE None
    IN  IF hit # None THEN hit ELSE self.fallback

\* Result::unwrap: the value, or a panic.
unwrap(res) == [panicked |-> ~res.ok, res |-> res]

\* impl From<RustlsConfig> for Arc<ServerConfig>
from(rustls_config) == {unwrap(res) : res \in build_server_config(rustls_config)}

----------------------------------------------------------------------------
\* The Keycerts, trust anchors and names the RustlsConfig calls are given.
Materials ==
    {with_cert(with_key(new_keycert, <<PKCS8("rsa-k1")>>), <<X509("c1")>>),
     with_cert_path(with_key_path(new_keycert, "key.pem"), "cert.pem"),
     with_cert_path(with_key_path(new_keycert, "both.pem"), "both.pem"),
     with_cert(new_keycert, <<X509("c1")>>)}

AnchorInputs == {<<>>, <<X509("ca1")>>}
AnchorPaths == {"missing.pem", "both.pem"}
Hostnames == {"a.example.com", "b.example.com"}
ServerNames == {None} \cup {Some(n) : n \in Hostnames \cup {"unregistered.example.com"}}

\* What a RustlsConfig call leaves in out.
Returned(op, arg, res, panicked) ==
    Some([op |-> op, arg |-> arg, res |-> res, panicked |-> panicked])

\* The history of a successful client_auth_* call: the policy it asked for,
\* and whether an earlier call had set one.
Set(policy) == Some([policy |-> policy, overwrote |-> auth # None])

ClientAuthOptionalPath(path) ==
    /\ cfg # None
    /\ \E res \in client_auth_optional_path(cfg[1], path) :
          /\ cfg' = res.val
          /\ auth' = IF res.ok THEN Set(Optional(Files[path].data)) ELSE auth
          /\ out' = Returned("client_auth_optional_path", path,
                             [res EXCEPT !.val = None], FALSE)
    /\ UNCHANGED <<fb0, regs, finalized, resolved, keycertVars>>

ClientAuthOptional(trust_anchor) ==
    /\ cfg # None
    /\ cfg' = Some(client_auth_optional(cfg[1], trust_anchor))
    /\ auth' = Set(Optional(trust_anchor))
    /\ out' = Returned("client_auth_optional", "", Ok(None), FALSE)
    /\ UNCHANGED <<fb0, regs, finalized, resolved, keycertVars>>

ClientAuthRequiredPath(path) ==
    /\ cfg # None
    /\ \E res \in client_auth_required_path(cfg[1], path) :
          /\ cfg' = res.val
          /\ auth' = IF res.ok THEN Set(Required(Files[path].data)) ELSE auth
          /\ out' = Returned("client_auth_required_path", path,
                             [res EXCEPT !.val = None], FALSE)
    /\ UNCHANGED <<fb0, regs, finalized, resolved, keycertVars>>

ClientAuthRequired(trust_anchor) ==
    /\ cfg # None
    /\ cfg' = Some(client_auth_required(cfg[1], trust_anchor))
    /\ auth' = Set(Required(trust_anchor))
    /\ out' = Returned("client_auth_required", "", Ok(None), FALSE)
    /\ UNCHANGED <<fb0, regs, finalized, resolved, keycertVars>>

AddKeycert(name, material) ==
    /\ cfg # None
    /\ Len(regs) < MaxRegs
    /\ cfg' = Some(keycert(cfg[1], name, material))
    /\ regs' = Append(regs, [name |-> name, material |-> material])
    /\ out' = Returned("keycert", name, Ok(None), FALSE)
    /\ UNCHANGED <<fb0, auth, finalized, resolved, keycertVars>>

\* A crate-internal caller of build_server_config, which hands the result on.
BuildServerConfig ==
    /\ cfg # None
    /\ \E res \in build_server_config(cfg[1]) :
          out' = Returned("build_server_config", "", res, FALSE)
    /\ finalized' = cfg
    /\ cfg' = None
    /\ UNCHANGED <<fb0, regs, auth, resolved, keycertVars>>

FromRustlsConfig ==
    /\ cfg # None
    /\ \E u \in from(cfg[1]) :
          out' = Returned("from", "", u.res, u.panicked)
    /\ finalized' = cfg
    /\ cfg' = None
    /\ UNCHANGED <<fb0, regs, auth, resolved, keycertVars>>

\* The last call produced a ServerConfig.
Produced ==
    /\ out # None
    /\ out[1].op \in {"build_server_config", "from"}
    /\ out[1].res.ok

Resolver == out[1].res.val[1].cert_resolver

Resolve(server_name) ==
    /\ Produced
    /\ resolved' = Some([name |-> server_name, ck |-> resolve(Resolver, server_name)])
    /\ UNCHANGED <<cfg, fb0, regs, auth, out, finalized, keycertVars>>

InitConfig(fallbacks) ==
    /\ \E fallback \in fallbacks :
          /\ cfg = Some(new(fallback))
          /\ fb0 = fallback
    /\ regs = <<>>
    /\ auth = None
    /\ out = None
    /\ finalized = None
    /\ resolved = None

NextConfig ==
    \/ \E path \in AnchorPaths : ClientAuthOptionalPath(path)
    \/ \E trust_anchor \in AnchorInputs : ClientAuthOptional(trust_anchor)
    \/ \E path \in AnchorPaths : ClientAuthRequiredPath(path)
    \/ \E trust_anchor \in AnchorInputs : ClientAuthRequired(trust_anchor)
    \/ \E name \in Hostnames, material \in Materials : AddKeycert(name, material)
    \/ BuildServerConfig
    \/ FromRustlsConfig
    \/ \E server_name \in ServerNames : Resolve(server_name)

----------------------------------------------------------------------------
\* The RustlsConfig calls, on a builder made by RustlsConfig::new.
Init ==
    /\ InitKeycert
    /\ InitConfig({None} \cup {Some(m) : m \in Materials})

Next == NextConfig

Spec == Init /\ [][Next]_vars

\* The Keycert calls, on a Keycert made by Keycert::new.
InitOfKeycert ==
    /\ InitKeycert
    /\ InitConfig({None})

SpecKeycert == InitOfKeycert /\ [][NextKeycert]_vars

----------------------------------------------------------------------------
\* Properties of the Keycert calls (SpecKeycert).

\* C5: a key (cert) file is read completely at most once between two
\* settings of the key (cert) fields, whatever the file holds.
C5_FileReadOnce ==
    /\ keyLoads <= 1
    /\ certLoads <= 1

\* C6 as first stated: without key bytes and key path key() fails with
\* "empty key" and changes nothing, and build_certified_key fails with the
\* same error; likewise cert() and "empty cert".
C6_EmptyErrorEverywhere ==
    ret # None =>
        LET r == ret[1]
        IN  /\ (r.pre.key = <<>> /\ r.pre.key_path = None) =>
                  /\ r.op = "key" => (r.res = Err(ErrEmptyKey) /\ kc = r.pre)
                  /\ r.op = "build_certified_key" => r.res = Err(ErrEmptyKey)
            /\ (r.pre.cert = <<>> /\ r.pre.cert_path = None) =>
                  /\ r.op = "cert" => (r.res = Err(ErrEmptyCert) /\ kc = r.pre)
                  /\ r.op = "build_certified_key" => r.res = Err(ErrEmptyCert)

\* C6 amended: key() and cert() fail as stated and change nothing;
\* build_certified_key without a cert fails with "empty cert" and changes
\* nothing; build_certified_key without a key always fails and leaves the key
\* fields alone, with "empty key" when the certificate stage passed (as it
\* does for in-memory cert bytes that decode), and with the certificate
\* stage's error otherwise.
C6_EmptyErrors ==
    ret # None =>
        LET r == ret[1]
        IN  /\ (r.pre.key = <<>> /\ r.pre.key_path = None) =>
                  /\ r.op = "key" => (r.res = Err(ErrEmptyKey) /\ kc = r.pre)
                  /\ r.op = "build_certified_key" =>
                        /\ ~r.res.ok
                        /\ kc.key = <<>> /\ kc.key_path = None
                        /\ r.res.err = ErrEmptyKey => r.trace = <<"certs">>
                        /\ r.res.err \in {ErrEmptyKey, ErrEmptyCert, ErrOpen, ErrRead,
                                          ErrParseCerts}
                        /\ (r.pre.cert # <<>> /\ Malformed \notin
                                {r.pre.cert[i] : i \in 1..Len(r.pre.cert)})
                              => r.res.err = ErrEmptyKey
            /\ (r.pre.cert = <<>> /\ r.pre.cert_path = None) =>
                  /\ r.op = "cert" => (r.res = Err(ErrEmptyCert) /\ kc = r.pre)
                  /\ r.op = "build_certified_key" =>
                        (r.res = Err(ErrEmptyCert) /\ kc = r.pre)

C6_Witness ==
    /\ ret # None
    /\ ret[1].op = "build_certified_key"
    /\ ret[1].pre.key = <<>> /\ ret[1].pre.key_path = None
    /\ ret[1].pre.cert # <<>>
    /\ ret[1].res = Err(ErrEmptyKey)

\* C7: in build_certified_key the RSA parser runs only after the PKCS8 parser,
\* and only when the key bytes hold no PKCS8 section; when they hold one, the
\* first of them is the key used; when neither parser finds a key the call
\* fails with "failed to parse tls private keys".
C7_Pkcs8First ==
    (ret # None /\ ret[1].op = "build_certified_key") =>
        LET r == ret[1]
            tags == {kc.key[i].tag : i \in 1..Len(kc.key)}
            first == CHOOSE i \in 1..Len(kc.key) :
                        /\ kc.key[i].tag = "PRIVATE KEY"
                        /\ \A j \in 1..(i - 1) : kc.key[j].tag # "PRIVATE KEY"
            ran == {r.trace[i] : i \in 1..Len(r.trace)}
        IN  /\ "rsa" \in ran =>
                  /\ r.trace = <<"certs", "pkcs8", "rsa">>
                  /\ "PRIVATE KEY" \notin tags
            /\ ("pkcs8" \in ran /\ "PRIVATE KEY" \in tags /\ "malformed" \notin tags) =>
                  /\ r.trace = <<"certs", "pkcs8">>
                  /\ r.res.ok => r.res.val[1].key.der = kc.key[first].der
                  /\ ~r.res.ok => r.res.err = ErrInvalidKey
            /\ ("rsa" \in ran /\ "RSA PRIVATE KEY" \notin tags) =>
                  r.res = Err(ErrParseKeys)

C7_Witness ==
    /\ ret # None
    /\ ret[1].op = "build_certified_key"
    /\ ret[1].res.ok
    /\ kc.key = <<RSAKEY("rsa-k2"), PKCS8("ec-k3")>>
    /\ ret[1].res.val[1].key.der = "ec-k3"
    /\ ret[1].trace = <<"certs", "pkcs8">>

\* C8: build_certified_key never succeeds with an empty certificate chain.
C8_NoEmptyChain ==
    (ret # None /\ ret[1].op = "build_certified_key" /\ ret[1].res.ok) =>
        ret[1].res.val[1].cert # <<>>

----------------------------------------------------------------------------
\* Properties of the RustlsConfig calls (Spec).

\* The names registered so far, and the last material registered under one.
Registered == {regs[i].name : i \in 1..Len(regs)}
LastMaterial(name) ==
    regs[CHOOSE i \in 1..Len(regs) :
            /\ regs[i].name = name
            /\ \A j \in (i + 1)..Len(regs) : regs[j].name # name].material

\* The identities build_certified_key can give for a Keycert.
Identities(material) ==
    {o.res.val[1] : o \in {x \in build_certified_key(material) : x.res.ok}}

\* C1: resolve returns the identity registered under the requested name when
\* there is one, whether or not there is a fallback; otherwise the fallback
\* when there is one; otherwise nothing.
C1_Resolve ==
    (resolved # None /\ Produced) =>
        LET q == resolved[1]
            registered == q.name # None /\ q.name[1] \in DOMAIN Resolver.certified_keys
        IN  /\ registered => q.ck = Some(Resolver.certified_keys[q.name[1]])
            /\ (~registered /\ Resolver.fallback # None) => q.ck = Resolver.fallback
            /\ (~registered /\ Resolver.fallback = None) => q.ck = None

C1_Witness ==
    /\ resolved # None
    /\ Produced
    /\ resolved[1].name = Some("a.example.com")
    /\ "a.example.com" \in DOMAIN Resolver.certified_keys
    /\ Resolver.fallback # None
    /\ resolved[1].ck # Resolver.fallback
    /\ resolved[1].ck # None

\* C2: after a successful finalize the resolver has one entry for each
\* registered name and no other, and the entry is an identity of the last
\* material registered under the name.
C2_LastRegistrationWins ==
    Produced =>
        /\ DOMAIN Resolver.certified_keys = Registered
        /\ \A name \in Registered :
              Resolver.certified_keys[name] \in Identities(LastMaterial(name))

C2_Witness ==
    /\ Produced
    /\ Len(regs) = 2
    /\ regs[1].name = regs[2].name
    /\ Identities(regs[1].material) # {}
    /\ Identities(regs[1].material) \cap Identities(regs[2].material) = {}
    /\ Resolver.certified_keys[regs[1].name] \notin Identities(regs[1].material)

\* C3: finalize gives a configuration only when every stage succeeded: the
\* resolver then holds an identity for the fallback exactly when the builder
\* had one, and one for every registered name, and the verifier is the one
\* the policy asks for; a stage that cannot succeed makes finalize return an
\* error and nothing else.
C3_AllOrNothing ==
    (out # None /\ out[1].op \in {"build_server_config", "from"}) =>
        LET c == finalized[1]
            res == out[1].res
            materials == {c.fallback[i] : i \in 1..Len(c.fallback)}
                            \cup {c.keycerts[name] : name \in DOMAIN c.keycerts}
            anchor == IF c.client_auth.kind = "Off"
                      THEN Ok(<<>>)
                      ELSE read_trust_anchor(c.client_auth.trust_anchor)
            errors == {o.res.err : o \in UNION {build_certified_key(m) : m \in materials}}
                         \cup {anchor.err}
        IN  /\ cfg = None
            /\ (\E m \in materials : Identities(m) = {}) => ~res.ok
            /\ ~anchor.ok => ~res.ok
            /\ ~res.ok => (res.val = None /\ res.err \in errors \ {""})
            /\ res.ok =>
                  /\ (Resolver.fallback # None) <=> (c.fallback # None)
                  /\ c.fallback # None =>
                        Resolver.fallback[1] \in Identities(c.fallback[1])
                  /\ DOMAIN Resolver.certified_keys = DOMAIN c.keycerts
                  /\ \A name \in DOMAIN c.keycerts :
                        Resolver.certified_keys[name] \in Identities(c.keycerts[name])
                  /\ res.val[1].verifier.kind =
                        CASE c.client_auth.kind = "Off" -> "NoClientAuth"
                          [] c.client_auth.kind = "Optional" ->
                                "AllowAnyAnonymousOrAuthenticatedClient"
                          [] OTHER -> "AllowAnyAuthenticatedClient"
                  /\ res.val[1].verifier.roots = anchor.val[1]

C3_Witness ==
    /\ out # None
    /\ out[1].op = "build_server_config"
    /\ ~out[1].res.ok
    /\ finalized[1].fallback # None
    /\ Identities(finalized[1].fallback[1]) # {}
    /\ \E a, b \in DOMAIN finalized[1].keycerts :
          /\ Identities(finalized[1].keycerts[a]) # {}
          /\ Identities(finalized[1].keycerts[b]) = {}

\* C4: no call that finalizes a RustlsConfig panics.
C4_NeverPanics ==
    out # None => ~out[1].panicked

\* C9: a new RustlsConfig has policy Off and no names; the policy is the one
\* the last successful client_auth_* call asked for; those calls leave the
\* fallback and the names alone; a path variant fails with the I/O error,
\* consuming the builder, when its file cannot be opened or read.
C9_ClientAuth ==
    /\ cfg # None =>
          /\ cfg[1].client_auth = IF auth = None THEN Off ELSE auth[1].policy
          /\ cfg[1].fallback = fb0
          /\ DOMAIN cfg[1].keycerts = Registered
          /\ \A name \in Registered : cfg[1].keycerts[name] = LastMaterial(name)
    /\ (out # None /\ out[1].op \in {"client_auth_optional_path",
                                       "client_auth_required_path"}) =>
          /\ ~Files[out[1].arg].exists => out[1].res = Err(ErrOpen)
          /\ ~out[1].res.ok => (out[1].res.err \in {ErrOpen, ErrRead} /\ cfg = None)
          /\ out[1].res.ok =>
                /\ cfg # None
                /\ cfg[1].client_auth.trust_anchor = Files[out[1].arg].data
                /\ cfg[1].client_auth.kind =
                      IF out[1].op = "client_auth_optional_path"
                      THEN "Optional" ELSE "Required"

C9_Witness ==
    /\ cfg # None
    /\ out # None
    /\ out[1].op = "client_auth_required"
    /\ auth[1].overwrote
    /\ cfg[1].client_auth = Required(<<X509("ca1")>>)
    /\ fb0 # None
    /\ regs # <<>>

============================================================================
